---- MODULE Spec2Model ----
(***************************************************************************)
(* A model of the chess front end: the AI provider layer (StockfishEngine, *)
(* GrokAI, AIManager) and the game controller (GameController).            *)
(*                                                                         *)
(* JavaScript runs one callback at a time, so every action below is one    *)
(* run of code between two points where the program gives up control (an   *)
(* await on a timer, on the network or on the worker, or a callback).      *)
(* Spec, SpecEngine and SpecGrok are the AI layer, whole and by provider;  *)
(* SpecGame is the controller, with AIManager.getBestMove as one step.     *)
(***************************************************************************)
EXTENDS Integers, Sequences, FiniteSets, TLC

(***************************************************************************)
(* Bounds of the model.                                                    *)
(***************************************************************************)
\* number of calls made to the AI layer in one behaviour
MaxCalls == 2

\* number of moves played in one behaviour, requests in flight included
MaxMoves == 3

\* number of processAIMove timers and requests pending at a time
MaxTimers == 2

\* number of games started in one behaviour
MaxGames == 2

\* games started from the start dialog where the dialog itself is followed
MaxSetups == 1

(***************************************************************************)
(* Program constants.                                                      *)
(***************************************************************************)
\* GrokAI CONFIG.MAX_RETRIES
MAX_RETRIES == 3

\* GrokAI CONFIG.RETRY_DELAY, in milliseconds
RETRY_DELAY == 1000

Calls == 1..MaxCalls

\* AIManager.AIProvider, and a name that is none of them
Providers == {"stockfish", "grok", "human", "unknown"}

\* AIManager.DifficultyLevel
Difficulties == {"beginner", "intermediate", "advanced", "master"}

\* the difficulties calls are made with
CallDifficulties == {"beginner", "master"}

\* the values of thinkingTime: null (the default, and CONFIG.THINKING_TIME),
\* zero, a number of milliseconds
ThinkingTimes == {"null", "0", "1000"}

\* difficulty names getBestMove can be given: the four levels, a name that
\* is none of them, and names of members every object inherits
DifficultyNames == Difficulties \cup {"expert", "constructor", "toString"}

\* the positions a move is requested for: a FEN and its legal moves in UCI
Positions ==
    { [fen |-> "fenA", legal |-> <<"e2e4", "d2d4">>],
      [fen |-> "fenB", legal |-> <<"d2d4">>] }

\* the moves an engine can print after 'bestmove': one legal in one of the
\* positions only, one legal in none
Answers == {"e2e4", "a1a1"}

Range(s) == { s[i] : i \in DOMAIN s }

\* the environments the engine can find itself in
Envs == {"noWorker", "noGlobal", "createThrows", "silent", "ok"}

VARIABLES
    \* ---- StockfishEngine (module state)
    engine,             \* 0 for null, else the identity of the engine object
    engineReady,
    currentCallback,    \* 0 for null, else the call whose promise it resolves
    pendingCommands,
    \* ---- the engine's surroundings
    env,                \* which of Envs holds
    engines,            \* number of engine objects created so far
    engIn,              \* commands posted to engines and not yet answered
    reqTimers,          \* armed TIMEOUT timers of getBestMove, in firing order
    initLog,            \* the result of the init() call that resolved last
    \* ---- GrokAI (module state)
    grokEnabled,        \* CONFIG.AI_ENABLED
    grokKey,            \* CONFIG.GROK_API_KEY
    grokBuildPrompt,    \* the property buildPrompt of the exported GrokAI object:
                        \* "undefined", or the difficulty its closure was made for
    \* ---- the calls to the AI layer
    position,           \* the position the moves are requested for
    calls,
    \* ---- GameController (module state)
    game,               \* the Chess object (read only after init() has made one)
    selectedSquare,     \* "" for null
    isAIThinking,
    isPaused,
    gameMode,
    moveHistory,
    isViewingHistory,
    currentViewIndex,
    \* ---- the controller's surroundings
    gameId,             \* number of games started by init(): 0 before the first
    aiTimers,           \* number of setTimeout(() => processAIMove()) pending
    requests,           \* the AIManager.getBestMove calls of processAIMove in flight
    lastPlayed,         \* the position after the last move played in the game
    resumed,            \* resume() was called in an AI-vs-AI game that was not
                        \* over, and no AI move was applied, no pause() and no
                        \* init() called since
    \* ---- UIController
    setup,              \* the startCustomGame call in progress, if any
    \* ---- ChessBoard (module state)
    isFlipped,
    squares,            \* the square elements of boardElement, by grid position:
                        \* the name (dataset.square) of each
    pieces              \* the piece each square element shows (its innerHTML)

engineVars == <<engine, engineReady, currentCallback, pendingCommands, env,
                engines, engIn, reqTimers, initLog>>

grokVars == <<grokEnabled, grokKey, grokBuildPrompt>>

boardVars == <<isFlipped, squares, pieces>>

gameVars == <<game, selectedSquare, isAIThinking, isPaused, gameMode, moveHistory,
              isViewingHistory, currentViewIndex, gameId, aiTimers, requests,
              lastPlayed, resumed, setup, boardVars>>

vars == <<engineVars, grokVars, position, calls, gameVars>>

\* a call not made yet.  kind: what is called; pc: where the call is waiting;
\* stage: whose init() it is waiting for; sf, sfMove: the promise of
\* StockfishEngine.getBestMove; out, val: how the call itself settled;
\* entry: what GrokAI.getBestMove found configured when it was entered;
\* attempt: the variable of its retry loop; sent: the user prompts of the
\* requests it made to the API; delay: the milliseconds of the sleep it is
\* in (0: none); last, apiMove: how its last attempt ended and
\* the valid move parsed from the answer; temp: tempBuildPrompt of getGrokMove.
\* The locals (difficulty, thinkingTime, attempt, temp) are kept while the code
\* reads them.
NoCall ==
    [ kind |-> "none", pc |-> "new", stage |-> "none", fen |-> "", legal |-> <<>>,
      difficulty |-> "", thinkingTime |-> "null", sf |-> "none", sfMove |-> "", out |-> "none", val |-> "",
      timer |-> "none", entry |-> "none", attempt |-> 0, delay |-> 0, sent |-> <<>>,
      last |-> "none", apiMove |-> "", temp |-> "undefined" ]

\* call c is the next one to be made (calls are numbered as they are made)
NextCall(c) ==
    /\ calls[c].kind = "none"
    /\ \A d \in 1..(c - 1) : calls[d].kind # "none"

(***************************************************************************)
(* StockfishEngine                                                         *)
(***************************************************************************)
isReady(eng, ready) == eng # 0 /\ ready

\* a UCI command: its word, the text of the value put into it (the skill
\* level of 'setoption', the depth of 'go depth', "" for none) and the call
\* it was issued for (0: for none)
Command(cmd, arg, req) == [cmd |-> cmd, arg |-> arg, req |-> req]

\* the members an object literal inherits from Object.prototype (some)
InheritedMembers == {"constructor", "toString"}

\* obj[key] as a template literal prints it: the own property, else the
\* inherited member (a function), else undefined
Lookup(obj, key) ==
    IF key \in DOMAIN obj THEN obj[key]
    ELSE IF key = "constructor" THEN "function Object() { [native code] }"
    ELSE IF key \in InheritedMembers THEN "function " \o key \o "() { [native code] }"
    ELSE "undefined"

\* CONFIG.SKILL_LEVELS
SKILL_LEVELS ==
    [beginner |-> "3", intermediate |-> "10", advanced |-> "15", master |-> "20"]

\* CONFIG.SKILL_LEVELS[difficulty] || CONFIG.SKILL_LEVELS.intermediate
SkillLevel(difficulty) ==
    LET level == Lookup(SKILL_LEVELS, difficulty) IN
    IF level # "undefined" THEN level ELSE SKILL_LEVELS.intermediate

\* depths[difficulty] || depths.intermediate
getDepthForDifficulty(difficulty) ==
    LET depths == [beginner |-> "3", intermediate |-> "8", advanced |-> "12",
                   master |-> "18"]
        depth  == Lookup(depths, difficulty)
    IN  IF depth # "undefined" THEN depth ELSE depths.intermediate

\* the 'go' command with the depth whatever thinkingTime is
goCommandDepthOnly(thinkingTime, depth, c) == Command("go", "depth " \o depth, c)

\* the 'go' command of getBestMove: `if (thinkingTime)` is false for null and 0
goCommand(thinkingTime, depth, c) ==
    IF thinkingTime \notin {"null", "0"}
    THEN Command("go", "movetime " \o thinkingTime, c)
    ELSE Command("go", "depth " \o depth, c)

sendCommandImmediate(eng, inbox, command) ==
    IF eng = 0 THEN inbox   \* engine.postMessage on null throws: nothing is sent
    ELSE Append(inbox, [eng |-> eng, cmd |-> command.cmd, arg |-> command.arg,
                        req |-> command.req])

\* the pair <<pendingCommands, engIn>> after sendCommand(command)
sendCommand(eng, ready, q, inbox, command) ==
    IF eng = 0 THEN <<q, inbox>>
    ELSE IF ~ready /\ command.cmd # "uci" THEN <<Append(q, command), inbox>>
    ELSE <<q, sendCommandImmediate(eng, inbox, command)>>

\* init() up to its first await: its result, or "await" while the script loads
initEntry(eng) ==
    IF eng # 0 THEN "true"
    ELSE IF env = "noWorker" THEN "false"
    ELSE "await"

NoInit == [ret |-> FALSE, cause |-> "none", isNull |-> TRUE, engineReady |-> FALSE]

\* the record kept of an init() call that resolved: its value, what made it
\* resolve, and whether engine was null and engineReady true at that moment
InitRecord(ret, cause, eng, ready) ==
    [ret |-> ret, cause |-> cause, isNull |-> (eng = 0), engineReady |-> ready]

(***************************************************************************)
(* AIManager.getBestMove, after its provider answered or threw             *)
(***************************************************************************)
Thrown == [ok |-> FALSE, move |-> ""]
Answered(m) == [ok |-> TRUE, move |-> m]

\* AIManager.getRandomMove: the moves it can return (none: it throws)
getRandomMove(legal) == Range(legal)

\* validMove without the test legalMoves.includes(move)
validMoveUnchecked(move, legal) == move # ""

\* the validation of the provider's answer: "" stands for no move at all
validMove(move, legal) == move # "" /\ move \in Range(legal)

\* how AIManager.getBestMove settles for the provider's answer ans
ManagerOutcomes(legal, ans) ==
    IF ans.ok /\ validMove(ans.move, legal)
    THEN {[out |-> "resolved", val |-> ans.move]}
    ELSE IF getRandomMove(legal) = {}
    THEN {[out |-> "rejected", val |-> "No legal moves available"]}
    ELSE {[out |-> "resolved", val |-> m] : m \in getRandomMove(legal)}

\* the call record rec settles as AIManager.getBestMove does for ans
ManagerSettle(cs, c, ans) ==
    \E o \in ManagerOutcomes(cs[c].legal, ans) :
        calls' = [cs EXCEPT ![c].pc = "done", ![c].out = o.out, ![c].val = o.val,
                            ![c].stage = "none", ![c].attempt = 0,
                            ![c].temp = "undefined"]

(***************************************************************************)
(* StockfishEngine.getBestMove and the code that runs once an init()       *)
(* awaited by call c has its result.  eng, ready and inbox are the values  *)
(* of engine, engineReady and engIn left by the code that ran before, and  *)
(* cs is the value of calls with the call's own record already updated.    *)
(***************************************************************************)
\* the promise executor: three commands, the callback, the TIMEOUT timer
Executor(cs, c, eng, ready, inbox) ==
    LET skillLevel == SkillLevel(cs[c].difficulty)
        depth == getDepthForDifficulty(cs[c].difficulty)
        s1 == sendCommand(eng, ready, pendingCommands, inbox,
                          Command("setoption", skillLevel, c))
        s2 == sendCommand(eng, ready, s1[1], s1[2], Command("position", cs[c].fen, c))
        s3 == sendCommand(eng, ready, s2[1], s2[2],
                          goCommand(cs[c].thinkingTime, depth, c))
    IN  /\ pendingCommands' = s3[1]
        /\ engIn' = s3[2]
        /\ currentCallback' = c
        /\ reqTimers' = Append(reqTimers, c)
        /\ calls' = [cs EXCEPT ![c].pc = "pending", ![c].sf = "pending",
                               ![c].stage = "none", ![c].difficulty = "",
                               ![c].thinkingTime = "null"]

\* EngineUnavailable without the catch of AIManager.getBestMove: the error of
\* the engine rejects the call
EngineUnavailableRejects(cs, c, inbox) ==
    /\ calls' = [cs EXCEPT ![c].pc = "done", ![c].out = "rejected",
                           ![c].val = "Stockfish engine not available",
                           ![c].stage = "none"]
    /\ engIn' = inbox
    /\ UNCHANGED <<pendingCommands, currentCallback, reqTimers>>

\* getStockfishMove or getBestMove throws: AIManager falls back
EngineUnavailable(cs, c, inbox) ==
    /\ ManagerSettle(cs, c, Thrown)
    /\ engIn' = inbox
    /\ UNCHANGED <<pendingCommands, currentCallback, reqTimers>>

\* the call waits for the script to load, inside the init() of `stage`
AwaitLoad(cs, c, stage, inbox) ==
    /\ calls' = [cs EXCEPT ![c].pc = "load", ![c].stage = stage]
    /\ engIn' = inbox
    /\ UNCHANGED <<pendingCommands, currentCallback, reqTimers>>

\* StockfishEngine.getBestMove from its first line
EngineGetBestMove(cs, c, eng, ready, inbox, log) ==
    IF eng = 0 \/ ~ready
    THEN LET r == initEntry(eng) IN
         CASE r = "true" ->
                /\ initLog' = InitRecord(TRUE, "existing", eng, ready)
                /\ Executor(cs, c, eng, ready, inbox)
           [] r = "false" ->
                /\ initLog' = InitRecord(FALSE, "noWorker", eng, ready)
                /\ EngineUnavailable(cs, c, inbox)
           [] OTHER ->
                /\ initLog' = log
                /\ AwaitLoad(cs, c, "eng", inbox)
    ELSE /\ initLog' = log
         /\ Executor(cs, c, eng, ready, inbox)

\* InitResolved with an init() that throws where it should return false
InitResolvedRejects(cs, c, stage, v, eng, ready, inbox, log) ==
    CASE stage = "direct" ->
            /\ calls' = [cs EXCEPT ![c].pc = "done",
                                      ![c].out = IF v THEN "resolved" ELSE "rejected",
                                      ![c].val = IF v THEN "true" ELSE "error",
                                      ![c].stage = "none"]
            /\ engIn' = inbox
            /\ initLog' = log
            /\ UNCHANGED <<pendingCommands, currentCallback, reqTimers>>
      [] stage = "mgr" /\ v  -> EngineGetBestMove(cs, c, eng, ready, inbox, log)
      [] stage = "eng" /\ v  -> initLog' = log /\ Executor(cs, c, eng, ready, inbox)
      [] OTHER               -> initLog' = log /\ EngineUnavailable(cs, c, inbox)

\* an init() awaited by call c resolved to v
InitResolved(cs, c, stage, v, eng, ready, inbox, log) ==
    CASE stage = "direct" ->
            /\ calls' = [cs EXCEPT ![c].pc = "done", ![c].out = "resolved",
                                      ![c].val = IF v THEN "true" ELSE "false",
                                      ![c].stage = "none"]
            /\ engIn' = inbox
            /\ initLog' = log
            /\ UNCHANGED <<pendingCommands, currentCallback, reqTimers>>
      [] stage = "mgr" /\ v  -> EngineGetBestMove(cs, c, eng, ready, inbox, log)
      [] stage = "eng" /\ v  -> initLog' = log /\ Executor(cs, c, eng, ready, inbox)
      [] OTHER               -> initLog' = log /\ EngineUnavailable(cs, c, inbox)

\* await StockfishEngine.init(), made for call c at `stage`
AwaitInit(cs, c, stage) ==
    LET r == initEntry(engine) IN
    CASE r = "true" ->
            InitResolved(cs, c, stage, TRUE, engine, engineReady, engIn,
                InitRecord(TRUE, "existing", engine, engineReady))
      [] r = "false" ->
            InitResolved(cs, c, stage, FALSE, engine, engineReady, engIn,
                InitRecord(FALSE, "noWorker", engine, engineReady))
      [] OTHER ->
            initLog' = initLog /\ AwaitLoad(cs, c, stage, engIn)

\* AIManager.getStockfishMove
getStockfishMove(cs, c) ==
    IF ~isReady(engine, engineReady)
    THEN AwaitInit(cs, c, "mgr")
    ELSE EngineGetBestMove(cs, c, engine, engineReady, engIn, initLog)

\* ---- StockfishEngine.init() is called (the page does so when it loads)
CallInit(c) ==
    /\ NextCall(c)
    /\ AwaitInit([calls EXCEPT ![c].kind = "init"], c, "direct")
    /\ UNCHANGED <<engine, engineReady, env, engines>>
    /\ UNCHANGED <<grokVars, position, gameVars>>

\* AIManager.getBestMove({provider: 'stockfish', difficulty: d}, fen, legalMoves, t)
RequestStockfishTimed(c, d, t) ==
    /\ NextCall(c)
    /\ \E p \in {position} :
        getStockfishMove([calls EXCEPT ![c].kind = "stockfish", ![c].fen = p.fen,
                                       ![c].legal = p.legal, ![c].difficulty = d,
                                       ![c].thinkingTime = t], c)
    /\ UNCHANGED <<engine, engineReady, env, engines>>
    /\ UNCHANGED <<grokVars, position, gameVars>>

\* the same call without thinkingTime, as processAIMove makes it
RequestStockfish(c, d) == RequestStockfishTimed(c, d, "null")

\* ---- AIManager.getBestMove is called with provider 'stockfish'
CallStockfish(c) == \E d \in CallDifficulties : RequestStockfish(c, d)

\* ---- the same call with any thinkingTime
CallStockfishTimed(c) ==
    \E d \in CallDifficulties, t \in ThinkingTimes : RequestStockfishTimed(c, d, t)

\* ---- the same call with any difficulty name
CallStockfishNamed(c) == \E d \in DifficultyNames : RequestStockfish(c, d)

\* ---- init() goes on after `await loadStockfishScript()`
ScriptLoaded(c) ==
    /\ calls[c].pc = "load"
    /\ IF env \in {"noGlobal", "createThrows"}
       THEN \* the throw is caught: engine = null, engineReady = false, return false
            /\ engine' = 0
            /\ engineReady' = FALSE
            /\ UNCHANGED engines
            /\ InitResolved(calls, c, calls[c].stage, FALSE, 0, FALSE, engIn,
                    InitRecord(FALSE, env, 0, FALSE))
       ELSE LET e == engines + 1
                sent == sendCommand(e, engineReady, pendingCommands, engIn,
                                    Command("uci", "", 0))
            IN  /\ engine' = e
                /\ engines' = e
                /\ UNCHANGED engineReady
                /\ IF engineReady
                   THEN \* waitForReady: checkReady() resolves at once
                        InitResolved(calls, c, calls[c].stage, TRUE, e, engineReady, sent[2],
                            InitRecord(TRUE, "ready", e, engineReady))
                   ELSE /\ calls' = [calls EXCEPT ![c].pc = "wait", ![c].timer = "armed"]
                        /\ engIn' = sent[2]
                        /\ UNCHANGED <<pendingCommands, currentCallback, reqTimers, initLog>>
    /\ UNCHANGED env
    /\ UNCHANGED <<grokVars, position, gameVars>>

\* ---- waitForReady: checkReady() runs (every 100 ms) and finds engineReady
CheckReady(c) ==
    /\ calls[c].pc = "wait"
    /\ engineReady
    /\ InitResolved([calls EXCEPT ![c].timer = "none"], c, calls[c].stage, TRUE,
            engine, engineReady, engIn,
            InitRecord(TRUE, "ready", engine, engineReady))
    /\ UNCHANGED <<engine, engineReady, env, engines>>
    /\ UNCHANGED <<grokVars, position, gameVars>>

\* ---- waitForReady: the 5 s timer fires
ReadyTimeout(c) ==
    /\ calls[c].pc = "wait"
    /\ calls[c].timer = "armed"
    /\ IF ~engineReady
       THEN InitResolved([calls EXCEPT ![c].timer = "expired"], c, calls[c].stage, FALSE,
                engine, engineReady, engIn,
                InitRecord(FALSE, "timeout", engine, engineReady))
       ELSE /\ calls' = [calls EXCEPT ![c].timer = "fired"]
            /\ UNCHANGED <<pendingCommands, currentCallback, reqTimers, engIn, initLog>>
    /\ UNCHANGED <<engine, engineReady, env, engines>>
    /\ UNCHANGED <<grokVars, position, gameVars>>

\* handleEngineOutput(line); inbox is engIn without the command being answered
handleEngineOutput(line, inbox) ==
    LET ready1   == engineReady \/ line.kind = "uciok"
        cb       == currentCallback
        resolves == line.kind = "bestmove" /\ cb # 0
        drain    == ready1 /\ pendingCommands # <<>>
    IN  /\ engineReady' = ready1
        /\ currentCallback' = IF resolves THEN 0 ELSE cb
        /\ IF resolves /\ calls[cb].sf = "pending"
           THEN ManagerSettle([calls EXCEPT ![cb].sf = "resolved", ![cb].sfMove = line.move],
                              cb, Answered(line.move))
           ELSE UNCHANGED calls
        /\ pendingCommands' = IF drain THEN Tail(pendingCommands) ELSE pendingCommands
        /\ engIn' = IF drain
                    THEN sendCommandImmediate(engine, inbox, Head(pendingCommands))
                    ELSE inbox

\* the commands an engine prints a line for
Answering == {"uci", "go"}

\* command i is the next one its engine answers: the engine reads its commands
\* in order and prints nothing for the others
Answerable(i) ==
    /\ i \in DOMAIN engIn
    /\ engIn[i].cmd \in Answering
    /\ \A j \in 1..(i - 1) :
            engIn[j].eng = engIn[i].eng => engIn[j].cmd \notin Answering

\* engIn once the engine of command i has read its commands up to i
AfterReading(i) ==
    LET keep == { j \in DOMAIN engIn : j > i \/ engIn[j].eng # engIn[i].eng }
        nth(k) == CHOOSE j \in keep : Cardinality({ x \in keep : x <= j }) = k
    IN  [k \in 1..Cardinality(keep) |-> engIn[nth(k)]]

\* ---- an engine answers 'uci' with a line holding 'uciok'
EngineUciok(i) ==
    /\ Answerable(i)
    /\ engIn[i].cmd = "uci"
    /\ env = "ok"
    /\ handleEngineOutput([kind |-> "uciok", move |-> ""], AfterReading(i))
    /\ UNCHANGED <<engine, env, engines, reqTimers, initLog>>
    /\ UNCHANGED <<grokVars, position, gameVars>>

\* ---- an engine answers 'go' with a 'bestmove' line
EngineBestmove(i) ==
    /\ Answerable(i)
    /\ engIn[i].cmd = "go"
    /\ env = "ok"
    /\ \E m \in Answers :
        handleEngineOutput([kind |-> "bestmove", move |-> m], AfterReading(i))
    /\ UNCHANGED <<engine, env, engines, reqTimers, initLog>>
    /\ UNCHANGED <<grokVars, position, gameVars>>

\* ---- the TIMEOUT timer of the oldest getBestMove still armed fires
RequestTimeout ==
    /\ reqTimers # <<>>
    /\ LET c == Head(reqTimers) IN
        /\ reqTimers' = Tail(reqTimers)
        /\ IF currentCallback # 0
           THEN /\ currentCallback' = 0
                /\ IF calls[c].sf = "pending"
                   THEN ManagerSettle([calls EXCEPT ![c].sf = "rejected"], c, Thrown)
                   ELSE UNCHANGED calls
           ELSE UNCHANGED <<currentCallback, calls>>
    /\ UNCHANGED <<engine, engineReady, pendingCommands, env, engines, engIn, initLog>>
    /\ UNCHANGED <<grokVars, position, gameVars>>

\* ---- StockfishEngine.stop(); terminated: the engine object has a
\* terminate method (a Worker), and what was posted to it is never answered
stop(terminated) ==
    /\ IF engine # 0
       THEN LET sent == sendCommand(engine, engineReady, pendingCommands, engIn,
                                    Command("stop", "", 0))
            IN  /\ pendingCommands' = sent[1]
                /\ engIn' = IF terminated
                            THEN SelectSeq(sent[2], LAMBDA m : m.eng # engine)
                            ELSE sent[2]
                /\ engine' = 0
                /\ engineReady' = FALSE
       ELSE UNCHANGED <<engine, engineReady, pendingCommands, engIn>>
    /\ UNCHANGED <<currentCallback, env, engines, reqTimers, initLog>>
    /\ UNCHANGED <<grokVars, position, calls, gameVars>>

(***************************************************************************)
(* GrokAI and AIManager.getGrokMove                                        *)
(***************************************************************************)
\* the keys configure() is given: none, the placeholder, a real one
GrokKeys == {"", "your-api-key-here", "xai-key"}

\* legalMoves.slice(0, 50)
Slice50(legal) == SubSeq(legal, 1, IF Len(legal) < 50 THEN Len(legal) ELSE 50)

\* AIManager.getGrokPromptForDifficulty: one instruction per difficulty
getGrokPromptForDifficulty(d) ==
    IF d \in Difficulties THEN "You are a chess engine playing at " \o d \o " level."
    ELSE "You are a chess engine playing at intermediate level."

\* AIManager.buildGrokPrompt
buildGrokPrompt(fen, legal, d) ==
    [ instruction |-> getGrokPromptForDifficulty(d),
      task |-> "return the best move for your level",
      fen |-> fen, moves |-> Slice50(legal) ]

\* GrokAI's own buildPrompt, the function callGrokAPI calls
buildPrompt(fen, legal) ==
    [ instruction |-> "", task |-> "return the best move",
      fen |-> fen, moves |-> Slice50(legal) ]

\* what the API can send back as message content, as lower-case words
ApiContents ==
    { <<"e2e4">>, <<"best move:", "d2d4">>, <<"i", "suggest", "a1a1">>,
      <<"i", "resign">>, <<>> }

\* what a request to the API ends with: an error (the network, a status that
\* is not ok, no choices in the answer) or a message content
ApiReplies ==
    {[ok |-> FALSE, content |-> <<>>]} \cup {[ok |-> TRUE, content |-> w] : w \in ApiContents}

\* the words that have the shape [a-h][1-8][a-h][1-8][qrbn]?
UciShaped == {"e2e4", "d2d4", "a1a1"}

RECURSIVE Join(_)
Join(words) ==
    IF words = <<>> THEN ""
    ELSE IF Len(words) = 1 THEN words[1]
    ELSE words[1] \o " " \o Join(Tail(words))

\* GrokAI.parseMove: the first word shaped like a move, else the cleaned text
parseMove(content) ==
    LET cleaned == IF content # <<>> /\ content[1] = "best move:" THEN Tail(content)
                   ELSE content
        hits    == { k \in DOMAIN cleaned : cleaned[k] \in UciShaped }
    IN  IF hits # {}
        THEN cleaned[CHOOSE k \in hits : \A h \in hits : k <= h]
        ELSE Join(cleaned)

\* GrokAI.isValidMove, with the `move &&` before it
isValidMove(move, legal) == move # "" /\ move \in Range(legal)

\* GrokAI.isConfigured
isConfigured(enabled, key) == enabled /\ key # "" /\ key # "your-api-key-here"

\* the same delay after every attempt
retryDelayFlat(attempt) == RETRY_DELAY

\* the argument of sleep() after attempt number `attempt` threw
retryDelay(attempt) == RETRY_DELAY * attempt

\* hasNextAttempt with <= for <
hasNextAttemptOffByOne(n) == n <= MAX_RETRIES

\* the retry loop of GrokAI.getBestMove goes on after attempt n
hasNextAttempt(n) == n < MAX_RETRIES

\* configEntry with the placeholder taken for a key
configEntryPlaceholderAccepted(enabled, key) ==
    IF ~enabled THEN "disabled"
    ELSE IF key = "" THEN "nokey"
    ELSE "enabled"

\* the two tests GrokAI.getBestMove starts with
configEntry(enabled, key) ==
    IF ~enabled THEN "disabled"
    ELSE IF key = "" \/ key = "your-api-key-here" THEN "nokey"
    ELSE "enabled"

\* GrokAI.getBestMove returned move: getGrokMove restores buildPrompt, and
\* AIManager.getBestMove validates the move (cur: the property as it is now)
GrokReturned(cs, c, cur, move) ==
    /\ grokBuildPrompt' = IF cs[c].temp # "undefined" THEN cs[c].temp ELSE cur
    /\ ManagerSettle(cs, c, Answered(move))

\* GrokAI.getRandomMove, as the last statement of GrokAI.getBestMove
GrokRandom(cs, c, cur) ==
    IF Range(cs[c].legal) = {}
    THEN \* it throws, nothing is restored, AIManager's own fallback throws too
         /\ ManagerSettle(cs, c, Thrown)
         /\ grokBuildPrompt' = cur
    ELSE \E m \in Range(cs[c].legal) : GrokReturned(cs, c, cur, m)

\* attempt n of the retry loop starts: callGrokAPI builds the prompt and fetches
GrokAttempt(cs, c, n) ==
    calls' = [cs EXCEPT ![c].pc = "fetch", ![c].attempt = n,
                        ![c].sent = Append(cs[c].sent, buildPrompt(cs[c].fen, cs[c].legal))]

\* ---- GrokAI.configure sets the key and the switch (the page does so on load)
Configure(enabled, key) ==
    /\ \A c \in Calls : calls[c].kind = "none"
    /\ <<enabled, key>> # <<grokEnabled, grokKey>>
    /\ grokEnabled' = enabled
    /\ grokKey' = key
    /\ UNCHANGED <<engineVars, grokBuildPrompt, position, calls, gameVars>>

\* ---- AIManager.getBestMove is called with provider 'grok'
CallGrok(c) ==
    /\ NextCall(c)
    /\ \E p \in {position}, d \in CallDifficulties :
        LET entry == configEntry(grokEnabled, grokKey)
            cs == [calls EXCEPT ![c].kind = "grok", ![c].fen = p.fen, ![c].legal = p.legal,
                                ![c].difficulty = d, ![c].temp = grokBuildPrompt,
                                ![c].entry = entry]
        IN  IF entry = "enabled"
            THEN /\ grokBuildPrompt' = d
                 /\ GrokAttempt(cs, c, 1)
            ELSE GrokRandom(cs, c, d)
    /\ UNCHANGED <<engineVars, grokEnabled, grokKey, position, gameVars>>

\* ---- the API answers the request of call c
ApiResponds(c) ==
    /\ calls[c].pc = "fetch"
    /\ \E reply \in ApiReplies :
        LET move == parseMove(reply.content)
            n    == calls[c].attempt
            res  == IF ~reply.ok THEN "error"
                    ELSE IF isValidMove(move, calls[c].legal) THEN "valid" ELSE "invalid"
            cs   == [calls EXCEPT ![c].last = res,
                                  ![c].apiMove = IF res = "valid" THEN move ELSE ""]
        IN  CASE res = "valid" -> GrokReturned(cs, c, grokBuildPrompt, move)
              [] res = "invalid" /\ hasNextAttempt(n) ->
                    GrokAttempt(cs, c, n + 1) /\ UNCHANGED grokBuildPrompt
              [] res = "error" /\ hasNextAttempt(n) ->
                    /\ calls' = [cs EXCEPT ![c].pc = "sleep", ![c].delay = retryDelay(n)]
                    /\ UNCHANGED grokBuildPrompt
              [] OTHER -> GrokRandom(cs, c, grokBuildPrompt)
    /\ UNCHANGED <<engineVars, grokEnabled, grokKey, position, gameVars>>

\* ---- sleep(RETRY_DELAY * attempt) is over: the next attempt starts
SleepOver(c) ==
    /\ calls[c].pc = "sleep"
    /\ GrokAttempt([calls EXCEPT ![c].delay = 0], c, calls[c].attempt + 1)
    /\ UNCHANGED <<engineVars, grokVars, position, gameVars>>

\* HumanProvider with its throw inside the try: the catch falls back
HumanProviderInsideTry(cs, c) == ManagerSettle(cs, c, Thrown)

\* AIManager.getBestMove with provider 'human': the throw before the try
HumanProvider(cs, c) ==
    calls' = [cs EXCEPT ![c].pc = "done", ![c].out = "rejected",
                        ![c].val = "Cannot get move for human player"]

\* ---- AIManager.getBestMove is called with provider 'human' or an unknown one
CallOther(c) ==
    /\ NextCall(c)
    /\ \E prov \in {"human", "unknown"}, p \in {position} :
        LET cs == [calls EXCEPT ![c].kind = prov, ![c].fen = p.fen, ![c].legal = p.legal]
        IN  IF prov = "human"
            THEN HumanProvider(cs, c)
            ELSE ManagerSettle(cs, c, Thrown)
    /\ UNCHANGED <<engineVars, grokVars, position, gameVars>>

(***************************************************************************)
(* ChessBoard: the 8x8 grid of square elements, in the order createBoard   *)
(* appends them (row 0 is the top row, column 0 the left one)              *)
(***************************************************************************)
Grid == (0..7) \X (0..7)

\* String.fromCharCode(97 + i)
Files == <<"a", "b", "c", "d", "e", "f", "g", "h">>

\* the digit a rank number is printed with
Ranks == <<"1", "2", "3", "4", "5", "6", "7", "8">>

\* boardElement before ChessBoard.init: no square
NoBoard == [p \in Grid |-> ""]

\* createBoard with the rows turned and the columns left as they are
createBoardRowsOnly(flipped) ==
    [p \in Grid |->
        LET displayRow == IF flipped THEN p[1] ELSE 7 - p[1]
            displayCol == p[2]
        IN  Files[displayCol + 1] \o Ranks[displayRow + 1]]

\* createBoard() of js/board.js with isFlipped = flipped: the names of the
\* squares appended
createBoard(flipped) ==
    [p \in Grid |->
        LET displayRow == IF flipped THEN p[1] ELSE 7 - p[1]
            displayCol == IF flipped THEN 7 - p[2] ELSE p[2]
            file == Files[displayCol + 1]
            rank == displayRow + 1
        IN  file \o Ranks[rank]]

\* createBoard() of the copy of ChessBoard in js/stockfish-engine.js
createBoardCopy(flipped) ==
    [p \in Grid |->
        LET rank == IF flipped THEN p[1] + 1 ELSE 8 - p[1]
            file == Files[(IF flipped THEN 7 - p[2] ELSE p[2]) + 1]
        IN  file \o Ranks[rank]]

(***************************************************************************)
(* The rules library (chess.js, loaded by the page and not part of the     *)
(* repository), reduced to a corner of the game: each side has a king that *)
(* steps between two squares and a pawn one step from promotion, and the   *)
(* game is over once a pawn has promoted.                                  *)
(***************************************************************************)
Squares == {"a7", "a8", "d1", "e1", "d8", "e8", "h2", "h1"}

NoPiece == [color |-> "", type |-> ""]

StartBoard ==
    [s \in Squares |->
        CASE s = "a7" -> [color |-> "w", type |-> "p"]
          [] s = "e1" -> [color |-> "w", type |-> "k"]
          [] s = "e8" -> [color |-> "b", type |-> "k"]
          [] s = "h2" -> [color |-> "b", type |-> "p"]
          [] OTHER    -> NoPiece]

\* the steps the pieces can make, in the order moves() lists them
MoveTable ==
    << [from |-> "e1", to |-> "d1", promotion |-> ""],
       [from |-> "d1", to |-> "e1", promotion |-> ""],
       [from |-> "a7", to |-> "a8", promotion |-> "q"],
       [from |-> "e8", to |-> "d8", promotion |-> ""],
       [from |-> "d8", to |-> "e8", promotion |-> ""],
       [from |-> "h2", to |-> "h1", promotion |-> "q"] >>

\* new Chess(), and the game after reset(): ply stands for the move counters
\* of the FEN, history for the moves the object remembers
Chess == [board |-> StartBoard, turn |-> "w", ply |-> 0, history |-> <<>>]

\* fen(): the position without the remembered moves
game_fen(g) == [board |-> g.board, turn |-> g.turn, ply |-> g.ply]

\* load(fen): the position of the FEN, no move remembered
game_load(f) == [board |-> f.board, turn |-> f.turn, ply |-> f.ply, history |-> <<>>]

game_get(g, square) == g.board[square]

game_over(g) == \E s \in Squares : g.board[s].type = "q"

LegalStep(g, mv) ==
    /\ ~game_over(g)
    /\ g.board[mv.from].color = g.turn
    /\ g.board[mv.to] = NoPiece

\* moves({verbose: true})
game_moves(g) == SelectSeq(MoveTable, LAMBDA mv : LegalStep(g, mv))

\* move({from, to, promotion}): ok is false for null; else the move object
\* and the game after it
game_move(g, from, to, promotion) ==
    LET hits == { i \in DOMAIN MoveTable :
                    /\ LegalStep(g, MoveTable[i])
                    /\ MoveTable[i].from = from
                    /\ MoveTable[i].to = to
                    /\ (MoveTable[i].promotion # "" => promotion = MoveTable[i].promotion) }
    IN  IF hits = {} THEN [ok |-> FALSE, move |-> <<>>, game |-> g]
        ELSE LET mv    == MoveTable[CHOOSE i \in hits : TRUE]
                 piece == g.board[mv.from]
                 moved == IF mv.promotion # "" THEN [color |-> piece.color, type |-> mv.promotion]
                          ELSE piece
                 obj   == [color |-> g.turn, from |-> mv.from, to |-> mv.to,
                           promotion |-> mv.promotion]
             IN  [ok |-> TRUE, move |-> obj,
                  game |-> [board |-> [g.board EXCEPT ![mv.from] = NoPiece, ![mv.to] = moved],
                            turn |-> IF g.turn = "w" THEN "b" ELSE "w",
                            ply |-> g.ply + 1,
                            history |-> Append(g.history, obj)]]

\* square[1], the rank of a square
Rank(square) ==
    CASE square \in {"a8", "d8", "e8"} -> "8"
      [] square = "a7"                 -> "7"
      [] square = "h2"                 -> "2"
      [] OTHER                         -> "1"

\* board(): the 8x8 array of the pieces, row 0 being rank 8 and column 0
\* file a
game_board(g) ==
    [p \in Grid |->
        LET name == Files[p[2] + 1] \o Ranks[8 - p[1]]
        IN  IF name \in Squares THEN g.board[name] ELSE NoPiece]

(***************************************************************************)
(* ChessBoard.render                                                       *)
(***************************************************************************)
\* the square elements after createBoard(): all empty
NoPieces == [p \in Grid |-> NoPiece]

\* for each square name, the <<displayRow, displayCol>> of the pass of the
\* loop of render() of js/board.js that builds this name
DisplayOf ==
    [name \in {Files[q[2] + 1] \o Ranks[q[1] + 1] : q \in Grid} |->
        CHOOSE q \in Grid : Files[q[2] + 1] \o Ranks[q[1] + 1] = name]

\* render(game) of js/board.js: each pass finds the element named
\* file + rank and gives it board[displayRow][displayCol]
render(g, sq) ==
    LET board == game_board(g)
    IN  [p \in Grid |-> board[DisplayOf[sq[p]]]]

\* render(game) of the copy of ChessBoard in js/stockfish-engine.js: the
\* element named squareName is given board[7 - rank][file]
renderCopy(g, sq) ==
    LET board == game_board(g)
    IN  [p \in Grid |->
            LET rank == DisplayOf[sq[p]][1]
                file == DisplayOf[sq[p]][2]
                boardRow == 7 - rank
                boardCol == file
            IN  board[<<boardRow, boardCol>>]]

(***************************************************************************)
(* GameController                                                          *)
(***************************************************************************)
PlayerConfig(provider) == [provider |-> provider, difficulty |-> "intermediate"]

\* the game modes the start dialog can build
GameModes ==
    { [white |-> PlayerConfig("human"),     black |-> PlayerConfig("grok")],
      [white |-> PlayerConfig("stockfish"), black |-> PlayerConfig("human")],
      [white |-> PlayerConfig("stockfish"), black |-> PlayerConfig("grok")],
      [white |-> PlayerConfig("human"),     black |-> PlayerConfig("human")] }

isAIvsAI(mode) == mode.white.provider # "human" /\ mode.black.provider # "human"

\* isPlayerBlack()
isPlayerBlack(mode) == mode.white.provider # "human" /\ mode.black.provider = "human"

getPlayerConfig(mode, color) == IF color = "w" THEN mode.white ELSE mode.black

getCurrentPlayerConfig(mode, g) == getPlayerConfig(mode, g.turn)

\* move.from + move.to (+ move.promotion)
Uci(mv) == mv.from \o mv.to \o mv.promotion

\* legalMoves.map(...) of processAIMove
legalMovesUCI(g) == [i \in DOMAIN game_moves(g) |-> Uci(game_moves(g)[i])]

\* uciMove.substring(0, 2), uciMove.substring(2, 4) and uciMove[4]
ParseUci(uciMove) ==
    CHOOSE t \in Squares \X Squares \X {"", "q", "r", "b", "n"} :
        t[1] \o t[2] \o t[3] = uciMove

\* selectSquare without the test of the piece's colour
selectSquareAnyPiece(g, square, sel) ==
    LET piece == game_get(g, square) IN
    IF piece # NoPiece THEN square ELSE sel

\* selectedSquare after selectSquare(square), sel being its value before
selectSquare(g, square, sel) ==
    LET piece == game_get(g, square) IN
    IF piece # NoPiece /\ piece.color = g.turn THEN square ELSE sel

\* moveHistory after onMoveMade(move), g being the game after the move
onMoveMade(mode, g, mv, history) ==
    Append(history, [move |-> mv, fen |-> game_fen(g),
                     moveNumber |-> (Len(history) \div 2) + 1,
                     player |-> getPlayerConfig(mode, mv.color)])

\* what AIManager.getBestMove is answered by its provider: an error, no
\* move, a move of the list, a move outside it
ProviderAnswers(legal) ==
    {Thrown} \cup { Answered(m) : m \in Range(legal) \cup {"", "a1a1"} }

\* how AIManager.getBestMove can settle for the list legal
AIManagerResults(legal) ==
    UNION { ManagerOutcomes(legal, ans) : ans \in ProviderAnswers(legal) }

\* one more move fits the bound on the moves of a behaviour
RoomForMove == Len(moveHistory) + Len(requests) < MaxMoves

\* one more timer fits the bound on pending timers and requests
RoomForTimer == aiTimers + Len(requests) < MaxTimers

\* startGame(gameMode): GameController.setGameMode(mode) and init(mode)
startGame(mode) ==
    LET g == Chess
        start == isAIvsAI(mode) \/ getCurrentPlayerConfig(mode, g).provider # "human"
    IN  /\ gameId < MaxGames
        /\ start => RoomForTimer
        /\ gameMode' = mode
        /\ game' = g
        /\ moveHistory' = <<>>
        /\ isViewingHistory' = FALSE
        /\ currentViewIndex' = -1
        /\ selectedSquare' = ""
        /\ isAIThinking' = FALSE
        /\ isPaused' = FALSE
        /\ aiTimers' = IF start THEN aiTimers + 1 ELSE aiTimers
        /\ gameId' = gameId + 1
        /\ lastPlayed' = game_fen(g)
        /\ resumed' = FALSE
        /\ isFlipped' = isPlayerBlack(mode)
        /\ squares' = createBoard(isPlayerBlack(mode))
        /\ pieces' = render(g, createBoard(isPlayerBlack(mode)))
        /\ UNCHANGED requests
        /\ UNCHANGED <<engineVars, grokVars, position, calls>>

\* ---- a game is started from the start dialog, its providers available
GameInit(mode) == startGame(mode) /\ UNCHANGED setup

\* isPromotion, testing rank 8 only
isPromotionRank8(g, from, to) ==
    LET piece == game_get(g, from) IN
    piece # NoPiece /\ piece.type = "p" /\ Rank(to) = "8"

\* isPromotion of attemptMove(from, to)
isPromotion(g, from, to) ==
    LET piece == game_get(g, from) IN
    piece # NoPiece /\ piece.type = "p" /\ Rank(to) \in {"8", "1"}

\* the promotion attemptMove(from, to) submits to game.move: "" for undefined
promotion(g, from, to) == IF isPromotion(g, from, to) THEN "q" ELSE ""

\* attemptMove(from, to)
attemptMove(from, to) ==
    LET r == game_move(game, from, to, promotion(game, from, to))
    IN  IF r.ok
        THEN LET next == ~game_over(r.game)
                         /\ getCurrentPlayerConfig(gameMode, r.game).provider # "human"
             IN  /\ RoomForMove
                 /\ next => RoomForTimer
                 /\ game' = r.game
                 /\ moveHistory' = onMoveMade(gameMode, r.game, r.move, moveHistory)
                 /\ selectedSquare' = ""
                 /\ aiTimers' = IF next THEN aiTimers + 1 ELSE aiTimers
                 /\ lastPlayed' = game_fen(r.game)
        ELSE /\ selectedSquare' = selectSquare(game, to, "")
             /\ UNCHANGED <<game, moveHistory, aiTimers, lastPlayed>>

\* handleSquareClick without the test of the provider of the side to move
handleSquareClickAnySide(square) ==
    /\ gameId > 0
    /\ IF isViewingHistory \/ isAIThinking \/ game_over(game)
       THEN UNCHANGED <<game, moveHistory, selectedSquare, aiTimers, lastPlayed>>
       ELSE IF selectedSquare = ""
       THEN /\ selectedSquare' = selectSquare(game, square, selectedSquare)
            /\ UNCHANGED <<game, moveHistory, aiTimers, lastPlayed>>
       ELSE IF square = selectedSquare
       THEN /\ selectedSquare' = ""
            /\ UNCHANGED <<game, moveHistory, aiTimers, lastPlayed>>
       ELSE attemptMove(selectedSquare, square)
    /\ pieces' = IF moveHistory' # moveHistory THEN render(game', squares) ELSE pieces
    /\ UNCHANGED <<isAIThinking, isPaused, gameMode, isViewingHistory, currentViewIndex,
                   gameId, requests, resumed, setup, isFlipped, squares>>
    /\ UNCHANGED <<engineVars, grokVars, position, calls>>

\* ---- handleSquareClick(square): a click on a square of the board
handleSquareClick(square) ==
    /\ gameId > 0
    /\ IF \/ isViewingHistory
          \/ isAIThinking
          \/ game_over(game)
          \/ getCurrentPlayerConfig(gameMode, game).provider # "human"
       THEN UNCHANGED <<game, moveHistory, selectedSquare, aiTimers, lastPlayed>>
       ELSE IF selectedSquare = ""
       THEN /\ selectedSquare' = selectSquare(game, square, selectedSquare)
            /\ UNCHANGED <<game, moveHistory, aiTimers, lastPlayed>>
       ELSE IF square = selectedSquare
       THEN /\ selectedSquare' = ""
            /\ UNCHANGED <<game, moveHistory, aiTimers, lastPlayed>>
       ELSE attemptMove(selectedSquare, square)
    /\ pieces' = IF moveHistory' # moveHistory THEN render(game', squares) ELSE pieces
    /\ UNCHANGED <<isAIThinking, isPaused, gameMode, isViewingHistory, currentViewIndex,
                   gameId, requests, resumed, setup, isFlipped, squares>>
    /\ UNCHANGED <<engineVars, grokVars, position, calls>>

\* ---- processAIMove, called by a timer, up to its await
processAIMove ==
    LET currentConfig == getCurrentPlayerConfig(gameMode, game) IN
    /\ aiTimers > 0
    /\ aiTimers' = aiTimers - 1
    /\ IF isAIThinking \/ game_over(game) \/ isPaused \/ currentConfig.provider = "human"
       THEN UNCHANGED <<isAIThinking, requests>>
       ELSE /\ RoomForMove
            /\ isAIThinking' = TRUE
            /\ requests' = Append(requests, [config |-> currentConfig, fen |-> game_fen(game),
                                             legalMoves |-> legalMovesUCI(game),
                                             game |-> gameId])
    /\ UNCHANGED <<game, selectedSquare, isPaused, gameMode, moveHistory, isViewingHistory,
                   currentViewIndex, gameId, lastPlayed, resumed, setup, boardVars>>
    /\ UNCHANGED <<engineVars, grokVars, position, calls>>

\* ---- processAIMove after its await: request i is settled by AIManager
AIMoveReturned(i) ==
    /\ i \in DOMAIN requests
    /\ \E o \in AIManagerResults(requests[i].legalMoves) :
        LET t == ParseUci(o.val)
            r == game_move(game, t[1], t[2], t[3])
        IN  IF o.out = "resolved" /\ r.ok
            THEN LET open == ~game_over(r.game) /\ ~isPaused
                     next == open /\ (\/ isAIvsAI(gameMode)
                                      \/ getCurrentPlayerConfig(gameMode, r.game).provider # "human")
                 IN  /\ game' = r.game
                     /\ moveHistory' = onMoveMade(gameMode, r.game, r.move, moveHistory)
                     /\ aiTimers' = IF next THEN aiTimers + 1 ELSE aiTimers
                     /\ lastPlayed' = game_fen(r.game)
                     /\ resumed' = FALSE
            ELSE UNCHANGED <<game, moveHistory, aiTimers, lastPlayed, resumed>>
    /\ isAIThinking' = FALSE
    /\ requests' = [k \in 1..(Len(requests) - 1) |->
                        IF k < i THEN requests[k] ELSE requests[k + 1]]
    /\ pieces' = IF moveHistory' # moveHistory THEN render(game', squares) ELSE pieces
    /\ UNCHANGED <<selectedSquare, isPaused, gameMode, isViewingHistory, currentViewIndex,
                   gameId, setup, isFlipped, squares>>
    /\ UNCHANGED <<engineVars, grokVars, position, calls>>

\* viewMoveAtIndex(index)
viewMoveAtIndex(index) ==
    IF index < 0 \/ index >= Len(moveHistory)
    THEN UNCHANGED <<isViewingHistory, currentViewIndex, game, pieces>>
    ELSE /\ isViewingHistory' = TRUE
         /\ currentViewIndex' = index
         /\ game' = game_load(moveHistory[index + 1].fen)
         /\ pieces' = render(game', squares)

\* returnToCurrentBody without the reload of the game
returnToCurrentKeepsPosition ==
    IF ~isViewingHistory
    THEN UNCHANGED <<isViewingHistory, currentViewIndex, game, pieces>>
    ELSE /\ isViewingHistory' = FALSE
         /\ currentViewIndex' = -1
         /\ UNCHANGED game
         /\ pieces' = render(game, squares)

\* returnToCurrentBody leaving currentViewIndex as it is
returnToCurrentKeepsIndex ==
    IF ~isViewingHistory
    THEN UNCHANGED <<isViewingHistory, currentViewIndex, game, pieces>>
    ELSE /\ isViewingHistory' = FALSE
         /\ UNCHANGED currentViewIndex
         /\ game' = IF Len(moveHistory) > 0
                    THEN game_load(moveHistory[Len(moveHistory)].fen)
                    ELSE Chess
         /\ pieces' = render(game', squares)

\* returnToCurrent()
returnToCurrentBody ==
    IF ~isViewingHistory
    THEN UNCHANGED <<isViewingHistory, currentViewIndex, game, pieces>>
    ELSE /\ isViewingHistory' = FALSE
         /\ currentViewIndex' = -1
         /\ game' = IF Len(moveHistory) > 0
                    THEN game_load(moveHistory[Len(moveHistory)].fen)
                    ELSE Chess
         /\ pieces' = render(game', squares)

\* what the history operations leave alone
HistoryFrame ==
    /\ UNCHANGED <<selectedSquare, isAIThinking, isPaused, gameMode, moveHistory, gameId,
                   aiTimers, requests, lastPlayed, resumed, setup, isFlipped, squares>>
    /\ UNCHANGED <<engineVars, grokVars, position, calls>>

\* ---- a click on entry index of the move list
viewMove(index) ==
    /\ index \in 0..(Len(moveHistory) - 1)
    /\ viewMoveAtIndex(index)
    /\ HistoryFrame

\* showPreviousMove starting at the first entry instead of the last
showPreviousMoveFromFirst ==
    /\ gameId > 0
    /\ IF ~isViewingHistory
       THEN IF Len(moveHistory) > 0
            THEN viewMoveAtIndex(0)
            ELSE UNCHANGED <<isViewingHistory, currentViewIndex, game, pieces>>
       ELSE IF currentViewIndex > 0
            THEN viewMoveAtIndex(currentViewIndex - 1)
            ELSE UNCHANGED <<isViewingHistory, currentViewIndex, game, pieces>>
    /\ HistoryFrame

\* ---- showPreviousMove()
showPreviousMove ==
    /\ gameId > 0
    /\ IF ~isViewingHistory
       THEN IF Len(moveHistory) > 0
            THEN viewMoveAtIndex(Len(moveHistory) - 1)
            ELSE UNCHANGED <<isViewingHistory, currentViewIndex, game, pieces>>
       ELSE IF currentViewIndex > 0
            THEN viewMoveAtIndex(currentViewIndex - 1)
            ELSE UNCHANGED <<isViewingHistory, currentViewIndex, game, pieces>>
    /\ HistoryFrame

\* ---- showNextMove()
showNextMove ==
    /\ gameId > 0
    /\ IF isViewingHistory /\ currentViewIndex < Len(moveHistory) - 1
       THEN viewMoveAtIndex(currentViewIndex + 1)
       ELSE IF isViewingHistory /\ currentViewIndex = Len(moveHistory) - 1
       THEN returnToCurrentBody
       ELSE UNCHANGED <<isViewingHistory, currentViewIndex, game, pieces>>
    /\ HistoryFrame

\* ---- returnToCurrent()
returnToCurrent ==
    /\ gameId > 0
    /\ returnToCurrentBody
    /\ HistoryFrame

\* pgn(): the headers and the moves the Chess object remembers
game_pgn(g, headers) == [headers |-> headers, moves |-> g.history]

\* exportPGN(): the record the Export PGN button downloads
exportPGN ==
    game_pgn(game, [White |-> gameMode.white, Black |-> gameMode.black])

\* ---- pause()
pause ==
    /\ gameId > 0
    /\ isPaused' = TRUE
    /\ resumed' = FALSE
    /\ UNCHANGED <<game, selectedSquare, isAIThinking, gameMode, moveHistory,
                   isViewingHistory, currentViewIndex, gameId, aiTimers, requests,
                   lastPlayed, setup, boardVars>>
    /\ UNCHANGED <<engineVars, grokVars, position, calls>>

\* ---- resume()
resume ==
    LET start == isAIvsAI(gameMode) /\ ~game_over(game) /\ ~isAIThinking IN
    /\ gameId > 0
    /\ start => RoomForTimer
    /\ isPaused' = FALSE
    /\ aiTimers' = IF start THEN aiTimers + 1 ELSE aiTimers
    /\ resumed' = (isAIvsAI(gameMode) /\ ~game_over(game))
    /\ UNCHANGED <<game, selectedSquare, isAIThinking, gameMode, moveHistory,
                   isViewingHistory, currentViewIndex, gameId, requests, lastPlayed,
                   setup, boardVars>>
    /\ UNCHANGED <<engineVars, grokVars, position, calls>>

\* what the board operations leave alone
BoardFrame ==
    /\ UNCHANGED <<game, selectedSquare, isAIThinking, isPaused, gameMode, moveHistory,
                   isViewingHistory, currentViewIndex, gameId, aiTimers, requests,
                   lastPlayed, resumed, setup>>
    /\ UNCHANGED <<engineVars, grokVars, position, calls>>

\* ---- the Flip Board button: ChessBoard.flip(), then ChessBoard.render(game)
flip ==
    /\ gameId > 0
    /\ isFlipped' = ~isFlipped
    /\ squares' = createBoard(~isFlipped)
    /\ pieces' = render(game, squares')
    /\ BoardFrame

\* ---- ChessBoard.setOrientation(flipped)
setOrientation(flipped) ==
    /\ gameId > 0
    /\ IF isFlipped # flipped
       THEN /\ isFlipped' = flipped
            /\ squares' = createBoard(flipped)
            /\ pieces' = NoPieces
       ELSE UNCHANGED <<isFlipped, squares, pieces>>
    /\ BoardFrame

(***************************************************************************)
(* UIController.startCustomGame: the providers chosen in the start dialog  *)
(* are checked, White's then Black's, and the game is started or an alert  *)
(* shown.  pc: which check is awaited; call: the init() call awaited, 0    *)
(* when the answer was there at once; answer: that answer; whiteAvailable: *)
(* the local of that name; shown: what the last call ended with.           *)
(***************************************************************************)
NoSetup ==
    [pc |-> "idle", white |-> "", black |-> "", call |-> 0, answer |-> FALSE,
     whiteAvailable |-> FALSE, shown |-> "none"]

\* the providers the start dialog offers
DialogProviders == {"human", "stockfish", "grok"}

\* AIManager.createGameMode
createGameMode(whiteProvider, blackProvider) ==
    [white |-> PlayerConfig(whiteProvider), black |-> PlayerConfig(blackProvider)]

\* AIManager.isProviderAvailable(provider) where it awaits nothing
isProviderAvailable(provider) ==
    CASE provider = "human"     -> TRUE
      [] provider = "stockfish" -> isReady(engine, engineReady)
      [] provider = "grok"      -> isConfigured(grokEnabled, grokKey)
      [] OTHER                  -> FALSE

\* `await AIManager.isProviderAvailable(provider)` begins; st is setup with
\* the locals of the code before it
AwaitAvailable(st, provider) ==
    IF provider = "stockfish" /\ ~isReady(engine, engineReady)
    THEN \* return await StockfishEngine.init()
         \E c \in Calls :
            /\ NextCall(c)
            /\ AwaitInit([calls EXCEPT ![c].kind = "init"], c, "direct")
            /\ setup' = [st EXCEPT !.call = c]
    ELSE /\ setup' = [st EXCEPT !.call = 0, !.answer = isProviderAvailable(provider)]
         /\ UNCHANGED <<calls, engIn, initLog, pendingCommands, currentCallback, reqTimers>>

\* the check awaited has its answer
CheckSettled(st) == IF st.call = 0 THEN TRUE ELSE calls[st.call].pc = "done"

\* the answer of the check awaited
available(st) == IF st.call = 0 THEN st.answer ELSE calls[st.call].val = "true"

\* what startCustomGame leaves alone while it checks
SetupFrame ==
    /\ UNCHANGED <<engine, engineReady, env, engines>>
    /\ UNCHANGED <<grokVars, position>>
    /\ UNCHANGED <<game, selectedSquare, isAIThinking, isPaused, gameMode, moveHistory,
                   isViewingHistory, currentViewIndex, gameId, aiTimers, requests,
                   lastPlayed, resumed, boardVars>>

\* ---- startCustomGame() up to `await isProviderAvailable(whiteProvider)`
startCustomGame(whiteProvider, blackProvider) ==
    /\ setup.pc = "idle"
    /\ gameId < MaxSetups
    /\ AwaitAvailable([NoSetup EXCEPT !.pc = "white", !.white = whiteProvider,
                                      !.black = blackProvider, !.shown = setup.shown],
                      whiteProvider)
    /\ SetupFrame

\* ---- startCustomGame() up to `await isProviderAvailable(blackProvider)`
WhiteChecked ==
    /\ setup.pc = "white"
    /\ CheckSettled(setup)
    /\ AwaitAvailable([setup EXCEPT !.pc = "black", !.whiteAvailable = available(setup)],
                      setup.black)
    /\ SetupFrame

\* the two tests of startCustomGame let the game start
mayStartWhiteOnly(whiteProvider, whiteAvailable, blackProvider, blackAvailable) ==
    ~(~whiteAvailable /\ whiteProvider # "human")

\* the two tests of startCustomGame let the game start
mayStart(whiteProvider, whiteAvailable, blackProvider, blackAvailable) ==
    /\ ~(~whiteAvailable /\ whiteProvider # "human")
    /\ ~(~blackAvailable /\ blackProvider # "human")

\* ---- startCustomGame() to its end: an alert, or startGame(gameMode)
BlackChecked ==
    /\ setup.pc = "black"
    /\ CheckSettled(setup)
    /\ IF mayStart(setup.white, setup.whiteAvailable, setup.black, available(setup))
       THEN /\ startGame(createGameMode(setup.white, setup.black))
            /\ setup' = [NoSetup EXCEPT !.shown = "game"]
       ELSE /\ setup' = [NoSetup EXCEPT !.shown = "alert"]
            /\ UNCHANGED <<engineVars, grokVars, position, calls>>
            /\ UNCHANGED <<game, selectedSquare, isAIThinking, isPaused, gameMode,
                           moveHistory, isViewingHistory, currentViewIndex, gameId,
                           aiTimers, requests, lastPlayed, resumed, boardVars>>

Init ==
    /\ engine = 0
    /\ engineReady = FALSE
    /\ currentCallback = 0
    /\ pendingCommands = <<>>
    /\ env \in Envs
    /\ engines = 0
    /\ engIn = <<>>
    /\ reqTimers = <<>>
    /\ initLog = NoInit
    /\ grokEnabled = TRUE
    /\ grokKey = "your-api-key-here"
    /\ grokBuildPrompt = "undefined"
    /\ position \in Positions
    /\ calls = [c \in Calls |-> NoCall]
    /\ game = Chess
    /\ selectedSquare = ""
    /\ isAIThinking = FALSE
    /\ isPaused = FALSE
    /\ gameMode = [white |-> PlayerConfig("human"), black |-> PlayerConfig("grok")]
    /\ moveHistory = <<>>
    /\ isViewingHistory = FALSE
    /\ currentViewIndex = -1
    /\ gameId = 0
    /\ aiTimers = 0
    /\ requests = <<>>
    /\ lastPlayed = game_fen(Chess)
    /\ resumed = FALSE
    /\ setup = NoSetup
    /\ isFlipped = FALSE
    /\ squares = NoBoard
    /\ pieces = NoPieces

\* the steps of StockfishEngine and of the calls that reach it
NextEngine ==
    \/ \E c \in Calls : CallInit(c)
    \/ \E c \in Calls : CallStockfish(c)
    \/ \E c \in Calls : ScriptLoaded(c)
    \/ \E c \in Calls : CheckReady(c)
    \/ \E c \in Calls : ReadyTimeout(c)
    \/ \E i \in DOMAIN engIn : EngineUciok(i)
    \/ \E i \in DOMAIN engIn : EngineBestmove(i)
    \/ RequestTimeout

\* the steps of GrokAI and of the calls that reach no engine
NextGrok ==
    \/ \E e \in BOOLEAN, k \in GrokKeys : Configure(e, k)
    \/ \E c \in Calls : CallGrok(c)
    \/ \E c \in Calls : ApiResponds(c)
    \/ \E c \in Calls : SleepOver(c)
    \/ \E c \in Calls : CallOther(c)

Next == NextEngine \/ NextGrok

Spec == Init /\ [][Next]_vars

SpecEngine == Init /\ [][NextEngine]_vars

\* the same steps, an engine that is owed a line printing it in the end
\* (the worker runs on its own thread)
SpecEngineFair ==
    /\ Init
    /\ [][NextEngine]_vars
    /\ WF_vars(\E i \in DOMAIN engIn : EngineUciok(i))
    /\ WF_vars(\E i \in DOMAIN engIn : EngineBestmove(i))

\* the steps of StockfishEngine when it is asked for moves only, with any
\* difficulty name
NextDifficulty ==
    \/ \E c \in Calls : CallStockfishNamed(c)
    \/ \E c \in Calls : ScriptLoaded(c)
    \/ \E c \in Calls : CheckReady(c)
    \/ \E c \in Calls : ReadyTimeout(c)
    \/ \E i \in DOMAIN engIn : EngineUciok(i)
    \/ \E i \in DOMAIN engIn : EngineBestmove(i)
    \/ RequestTimeout

\* a page where the engine can be made and answers
InitDifficulty == Init /\ env = "ok" /\ position.fen = "fenA"

\* requests of any difficulty name
SpecDifficulty == InitDifficulty /\ [][NextDifficulty]_vars

\* the steps of StockfishEngine, stop() among them, while no timer fires
NextStop ==
    \/ \E c \in Calls : CallInit(c)
    \/ \E c \in Calls : CallStockfish(c)
    \/ \E c \in Calls : ScriptLoaded(c)
    \/ \E c \in Calls : CheckReady(c)
    \/ \E i \in DOMAIN engIn : EngineUciok(i)
    \/ \E i \in DOMAIN engIn : EngineBestmove(i)
    \/ \E terminated \in BOOLEAN : stop(terminated)

\* an engine that may be stopped and made again
SpecStop == InitDifficulty /\ [][NextStop]_vars

\* the steps of StockfishEngine when it is asked for moves only, with any
\* thinkingTime
NextTimed ==
    \/ \E c \in Calls : CallStockfishTimed(c)
    \/ \E c \in Calls : ScriptLoaded(c)
    \/ \E c \in Calls : CheckReady(c)
    \/ \E c \in Calls : ReadyTimeout(c)
    \/ \E i \in DOMAIN engIn : EngineUciok(i)
    \/ \E i \in DOMAIN engIn : EngineBestmove(i)
    \/ RequestTimeout

\* requests with any thinkingTime
SpecTimed == InitDifficulty /\ [][NextTimed]_vars

SpecGrok == Init /\ [][NextGrok]_vars

\* the steps of the start dialog, of the page as it loads and of the engine
\* as it is made
NextSetup ==
    \/ \E k \in GrokKeys : Configure(TRUE, k)
    \/ CallInit(1)
    \/ \E c \in Calls : ScriptLoaded(c)
    \/ \E c \in Calls : CheckReady(c)
    \/ \E c \in Calls : ReadyTimeout(c)
    \/ \E i \in DOMAIN engIn : EngineUciok(i)
    \/ \E w \in DialogProviders, b \in DialogProviders : startCustomGame(w, b)
    \/ WhiteChecked
    \/ BlackChecked

\* the page with its start dialog
InitSetup == Init /\ env \in {"ok", "silent", "noWorker"} /\ position.fen = "fenA"

SpecSetup == InitSetup /\ [][NextSetup]_vars

\* the steps of the board and of the games of human players that use it
NextBoard ==
    \/ \E mode \in {m \in GameModes : m.black.provider = "human"} : GameInit(mode)
    \/ \E square \in Squares : handleSquareClick(square)
    \/ \E index \in 0..MaxMoves : viewMove(index)
    \/ flip
    \/ \E flipped \in BOOLEAN : setOrientation(flipped)

\* the steps of GameController
NextGame ==
    \/ \E mode \in GameModes : GameInit(mode)
    \/ \E square \in Squares : handleSquareClick(square)
    \/ processAIMove
    \/ \E i \in DOMAIN requests : AIMoveReturned(i)
    \/ \E index \in 0..(MaxMoves - 1) : viewMove(index)
    \/ showPreviousMove
    \/ showNextMove
    \/ returnToCurrent
    \/ pause
    \/ resume

\* GameController started on a page whose engine answers
InitGame == Init /\ env = "ok" /\ position.fen = "fenA"

SpecGame == InitGame /\ [][NextGame]_vars

SpecBoard == InitGame /\ [][NextBoard]_vars

\* the steps of GameController when every game started is AI against AI
NextAIvsAI ==
    \/ \E mode \in {m \in GameModes : isAIvsAI(m)} : GameInit(mode)
    \/ \E square \in Squares : handleSquareClick(square)
    \/ processAIMove
    \/ \E i \in DOMAIN requests : AIMoveReturned(i)
    \/ \E index \in 0..(MaxMoves - 1) : viewMove(index)
    \/ showPreviousMove
    \/ showNextMove
    \/ returnToCurrent
    \/ pause
    \/ resume

\* AI-vs-AI games with the timers firing and the requests to AIManager
\* settling; what the user does (clicks, buttons) may never happen
SpecAIvsAI ==
    /\ InitGame
    /\ [][NextAIvsAI]_vars
    /\ WF_vars(processAIMove)
    /\ WF_vars(\E i \in DOMAIN requests : AIMoveReturned(i))

(***************************************************************************)
(* Properties of the AI provider layer                                     *)
(***************************************************************************)
\* C1: a call of AIManager.getBestMove with a provider other than 'human'
\* and a non-empty legalMoves, once settled, is resolved with a member of
\* legalMoves; an answer of the provider that is in the list is returned as
\* it is, any other answer or error is replaced by an element of the list.
C1_ResolvesToLegalMove ==
    \A c \in Calls :
        (/\ calls[c].kind \in Providers \ {"human"}
         /\ calls[c].legal # <<>>
         /\ calls[c].pc = "done")
        => /\ calls[c].out = "resolved"
           /\ calls[c].val \in Range(calls[c].legal)
           /\ (calls[c].sf = "resolved" /\ calls[c].sfMove \in Range(calls[c].legal)
                    => calls[c].val = calls[c].sfMove)
           /\ (calls[c].last = "valid" => calls[c].val = calls[c].apiMove)

\* C1, its case: the engine answered a move that is not in legalMoves and
\* the call resolved nevertheless
C1_Witness ==
    \E c \in Calls :
        /\ calls[c].kind = "stockfish"
        /\ calls[c].sf = "resolved"
        /\ calls[c].sfMove \notin Range(calls[c].legal)
        /\ calls[c].pc = "done"
        /\ calls[c].val \in Range(calls[c].legal)

\* C2: GrokAI.getBestMove, enabled and with a key, makes at most MAX_RETRIES
\* requests to the API; the first answer that parses to a legal move ends the
\* call with that move, and a call that ends without one has made exactly
\* MAX_RETRIES requests and returns an element of legalMoves.
C2_AtMostMaxRetries ==
    \A c \in Calls :
        (calls[c].kind = "grok" /\ grokEnabled /\ grokKey = "xai-key")
        => /\ Len(calls[c].sent) <= MAX_RETRIES
           /\ (calls[c].pc # "done"
                    => calls[c].last # "valid" /\ Len(calls[c].sent) = calls[c].attempt)
           /\ (calls[c].last = "valid"
                    => /\ calls[c].pc = "done"
                       /\ calls[c].out = "resolved"
                       /\ calls[c].val = calls[c].apiMove
                       /\ calls[c].apiMove \in Range(calls[c].legal))
           /\ (calls[c].pc = "done" /\ calls[c].last # "valid"
                    => /\ Len(calls[c].sent) = MAX_RETRIES
                       /\ calls[c].out = "resolved"
                       /\ calls[c].val \in Range(calls[c].legal))

\* C2, its case: every attempt failed, the last one with an error, and the
\* call returned a legal move after MAX_RETRIES requests
C2_Witness ==
    \E c \in Calls :
        /\ calls[c].kind = "grok"
        /\ calls[c].pc = "done"
        /\ calls[c].last = "error"
        /\ Len(calls[c].sent) = MAX_RETRIES
        /\ calls[c].val \in Range(calls[c].legal)

\* C3: with AI_ENABLED false, or with a key that is empty or the placeholder,
\* GrokAI.getBestMove sends no request and returns an element of legalMoves.
C3_NoCallWhenNotConfigured ==
    \A c \in Calls :
        (/\ calls[c].kind = "grok"
         /\ (~grokEnabled \/ grokKey = "" \/ grokKey = "your-api-key-here"))
        => /\ calls[c].sent = <<>>
           /\ calls[c].pc = "done"
           /\ calls[c].out = "resolved"
           /\ calls[c].val \in Range(calls[c].legal)

\* C3, its case: a call made with AI enabled and the key set to the empty
\* string
C3_Witness ==
    \E c \in Calls :
        /\ calls[c].kind = "grok"
        /\ grokEnabled
        /\ grokKey = ""
        /\ calls[c].pc = "done"
        /\ calls[c].val \in Range(calls[c].legal)

\* C4: where Stockfish is unavailable (no Web Worker, no engine after the
\* script has loaded, no 'uciok'), a call of AIManager.getBestMove with
\* provider 'stockfish' that has settled is resolved, never rejected, with an
\* element of legalMoves that no engine supplied.
C4_FallbackWhenUnavailable ==
    env # "ok" =>
        \A c \in Calls :
            (calls[c].kind = "stockfish" /\ calls[c].pc = "done")
            => /\ calls[c].out = "resolved"
               /\ calls[c].val \in Range(calls[c].legal)
               /\ calls[c].sf # "resolved"

\* C4, its case: the engine never answered 'uciok', the init() awaited by the
\* call timed out and the call resolved with a legal move
C4_Witness ==
    /\ env = "silent"
    /\ \E c \in Calls :
        /\ calls[c].kind = "stockfish"
        /\ calls[c].timer = "expired"
        /\ calls[c].pc = "done"
        /\ calls[c].out = "resolved"
        /\ calls[c].val \in Range(calls[c].legal)

\* C5: every StockfishEngine.getBestMove request that has sent its 'go' is
\* settled, by a 'bestmove' or by 'Stockfish timeout', once its TIMEOUT timer
\* has fired.
C5_SettledAfterTimeout ==
    \A c \in Calls :
        (/\ calls[c].sf = "pending"
         /\ \A i \in DOMAIN pendingCommands : pendingCommands[i].req # c)
        => c \in Range(reqTimers)

\* C6: an init() that resolves true does so with the engine in place and
\* 'uciok' received, that is with isReady() true.
C6_TrueOnlyWhenReady ==
    initLog.ret => ~initLog.isNull /\ initLog.engineReady

\* C7: init() never rejects; it resolves false where Web Workers are missing,
\* where no engine can be made after the script has loaded, and when its 5 s
\* timer finds no 'uciok'; after the exception path engine is null and
\* engineReady false.
C7_FalseOnFailure ==
    /\ \A c \in Calls :
        (calls[c].kind = "init" /\ calls[c].pc = "done")
        => /\ calls[c].out = "resolved"
           /\ (env \in {"noWorker", "noGlobal", "createThrows"}
                    => calls[c].val = "false")
           /\ (calls[c].timer = "expired" => calls[c].val = "false")
    /\ initLog.cause \in {"noGlobal", "createThrows"}
        => /\ initLog.isNull /\ ~initLog.engineReady
           /\ engine = 0 /\ ~engineReady

\* C7, its case: an init() sent 'uci', got no 'uciok' before its timer and
\* resolved false
C7_Witness ==
    \E c \in Calls :
        /\ calls[c].kind = "init"
        /\ calls[c].timer = "expired"
        /\ calls[c].pc = "done"
        /\ calls[c].out = "resolved"
        /\ calls[c].val = "false"

\* C8: the user prompt of every request a 'grok' call of difficulty d sends
\* to the API is the one AIManager.buildGrokPrompt builds for d.
C8_DifficultyPromptSent ==
    \A c \in Calls :
        calls[c].kind = "grok" =>
            \A i \in DOMAIN calls[c].sent :
                calls[c].sent[i] =
                    buildGrokPrompt(calls[c].fen, calls[c].legal, calls[c].difficulty)

(***************************************************************************)
(* Properties of the game controller                                       *)
(***************************************************************************)
\* C9: no step taken while history is viewed applies a move to the game or
\* appends an entry to moveHistory, be it a click or an AI move requested or
\* scheduled before.
C9_NoMoveWhileViewing ==
    [][(isViewingHistory /\ gameId' = gameId)
            => /\ moveHistory' = moveHistory
               /\ lastPlayed' = lastPlayed]_vars

\* C10: returnToCurrent, called while history is viewed, clears
\* isViewingHistory, sets currentViewIndex to -1 and makes the position the
\* one recorded in the last entry of moveHistory (the initial one if there is
\* none), which is the position after the last move played; called while
\* history is not viewed it changes nothing.
C10_ReturnToCurrent ==
    [][returnToCurrent
            => IF isViewingHistory
               THEN /\ ~isViewingHistory'
                    /\ currentViewIndex' = -1
                    /\ game_fen(game') = IF moveHistory = <<>> THEN game_fen(Chess)
                                         ELSE moveHistory[Len(moveHistory)].fen
                    /\ game_fen(game') = lastPlayed
                    /\ moveHistory' = moveHistory
               ELSE UNCHANGED vars]_vars

\* C10, its case: moves were played, an older position was viewed and the
\* game is live again on a freshly loaded position
C10_Witness ==
    /\ Len(moveHistory) >= 2
    /\ ~isViewingHistory
    /\ currentViewIndex = -1
    /\ game.history = <<>>
    /\ game_fen(game) = lastPlayed

\* C11: showPreviousMove starts viewing at the last entry when history is
\* not viewed and moveHistory is not empty, steps from index i > 0 to i - 1,
\* and changes nothing otherwise; showNextMove steps from index i < length-1
\* to i + 1, returns to the current position from index length-1, and
\* changes nothing when history is not viewed.  The position loaded is the
\* fen stored in moveHistory at the index viewed.
C11_PreviousNextStep ==
    [][/\ showPreviousMove
            => IF ~isViewingHistory /\ Len(moveHistory) > 0
               THEN /\ isViewingHistory'
                    /\ currentViewIndex' = Len(moveHistory) - 1
                    /\ game_fen(game') = moveHistory[Len(moveHistory)].fen
                    /\ moveHistory' = moveHistory
               ELSE IF isViewingHistory /\ currentViewIndex > 0
               THEN /\ isViewingHistory'
                    /\ currentViewIndex' = currentViewIndex - 1
                    /\ game_fen(game') = moveHistory[currentViewIndex].fen
                    /\ moveHistory' = moveHistory
               ELSE UNCHANGED vars
       /\ showNextMove
            => IF isViewingHistory /\ currentViewIndex < Len(moveHistory) - 1
               THEN /\ isViewingHistory'
                    /\ currentViewIndex' = currentViewIndex + 1
                    /\ game_fen(game') = moveHistory[currentViewIndex + 2].fen
                    /\ moveHistory' = moveHistory
               ELSE IF isViewingHistory
               THEN /\ ~isViewingHistory'
                    /\ currentViewIndex' = -1
                    /\ game_fen(game') = moveHistory[Len(moveHistory)].fen
                    /\ moveHistory' = moveHistory
               ELSE UNCHANGED vars]_vars

\* C11, its case: with three moves played the entry before the last one is
\* in view, as after Previous pressed twice or Previous, Previous, Previous,
\* Next
C11_Witness ==
    /\ Len(moveHistory) = 3
    /\ isViewingHistory
    /\ currentViewIndex = 1
    /\ game_fen(game) = moveHistory[2].fen
    /\ game.history = <<>>

\* a click on square is let through by the tests handleSquareClick starts with
ClickAccepted ==
    /\ ~isViewingHistory
    /\ ~isAIThinking
    /\ ~game_over(game)
    /\ getCurrentPlayerConfig(gameMode, game).provider = "human"

\* square holds a piece of the side to move
OwnPiece(square) ==
    game.board[square] # NoPiece /\ game.board[square].color = game.turn

\* the rules allow a move from one square to the other
LegalFromTo(from, to) ==
    \E i \in DOMAIN game_moves(game) :
        game_moves(game)[i].from = from /\ game_moves(game)[i].to = to

\* C12: with no square selected a click selects the square only if it holds
\* a piece of the side to move; a click on the selected square deselects it;
\* a click on another square attempts the move: a legal move is applied,
\* recorded in moveHistory and the selection cleared; an illegal one leaves
\* the game unchanged and selects the clicked square if it holds a piece of
\* the side to move, and clears the selection otherwise.
C12_ClickToSelectAndMove ==
    [][\A square \in Squares :
        (ClickAccepted /\ handleSquareClick(square))
        => IF selectedSquare = ""
           THEN /\ selectedSquare' = IF OwnPiece(square) THEN square ELSE ""
                /\ game' = game
                /\ moveHistory' = moveHistory
           ELSE IF square = selectedSquare
           THEN /\ selectedSquare' = ""
                /\ game' = game
                /\ moveHistory' = moveHistory
           ELSE IF LegalFromTo(selectedSquare, square)
           THEN /\ selectedSquare' = ""
                /\ game'.board[selectedSquare] = NoPiece
                /\ game'.board[square].color = game.turn
                /\ game'.turn # game.turn
                /\ Len(moveHistory') = Len(moveHistory) + 1
                /\ SubSeq(moveHistory', 1, Len(moveHistory)) = moveHistory
                /\ moveHistory'[Len(moveHistory')].fen = game_fen(game')
                /\ moveHistory'[Len(moveHistory')].move.from = selectedSquare
                /\ moveHistory'[Len(moveHistory')].move.to = square
           ELSE /\ selectedSquare' = IF OwnPiece(square) THEN square ELSE ""
                /\ game' = game
                /\ moveHistory' = moveHistory]_vars

\* C12, its case: the last move was made by a human click and the selection
\* is cleared
C12_Witness ==
    /\ moveHistory # <<>>
    /\ moveHistory[Len(moveHistory)].player.provider = "human"
    /\ game.history # <<>>
    /\ game.history[Len(game.history)] = moveHistory[Len(moveHistory)].move
    /\ selectedSquare = ""
    /\ ~isViewingHistory

\* C13: handleSquareClick changes neither the game, moveHistory nor the
\* selection while the AI is thinking, when the game is over, or when the
\* provider of the side to move is not human; processAIMove requests no move
\* when the provider of the side to move is human.
C13_ClickAndAIMoveGuards ==
    [][/\ \A square \in Squares :
            (/\ handleSquareClick(square)
             /\ \/ isAIThinking
                \/ game_over(game)
                \/ getCurrentPlayerConfig(gameMode, game).provider # "human")
            => /\ game' = game
               /\ moveHistory' = moveHistory
               /\ selectedSquare' = selectedSquare
       /\ (processAIMove /\ getCurrentPlayerConfig(gameMode, game).provider = "human")
            => /\ requests' = requests
               /\ isAIThinking' = isAIThinking]_vars

\* C13, its case: a game where the side to move is played by an AI that is
\* thinking, with its own pieces on the board to click on
C13_Witness ==
    /\ gameId > 0
    /\ isAIThinking
    /\ requests # <<>>
    /\ ~game_over(game)
    /\ ~isViewingHistory
    /\ getCurrentPlayerConfig(gameMode, game).provider # "human"
    /\ \E square \in Squares : OwnPiece(square)

\* C14: from pause() until resume(), processAIMove starts no new request to
\* the AI; and when resume() is called in an AI-vs-AI game that is not over,
\* an AI move is eventually requested and applied again (unless the game is
\* paused or started anew first, or the bound on the moves is reached).
C14_PauseResume ==
    /\ [][(processAIMove /\ isPaused)
            => (requests' = requests /\ isAIThinking' = isAIThinking)]_vars
    /\ resumed ~> (~resumed \/ game_over(game) \/ Len(moveHistory) >= MaxMoves)

\* C15: at any time, after any moves and history navigation, the record
\* exportPGN returns contains every move of moveHistory, in order, from the
\* first move of the game.
C15_ExportHasEveryMove ==
    gameId > 0
    => exportPGN.moves = [i \in 1..Len(moveHistory) |-> moveHistory[i].move]

\* the squares of the first and of the last rank
LastRanks == {"a8", "d8", "e8", "d1", "e1", "h1"}

\* C16: attemptMove submits the promotion 'q' exactly when the piece on the
\* source square is a pawn and the destination is on rank 1 or 8, and no
\* promotion otherwise; a pawn moved to the last rank by a click becomes a
\* queen, any other move by a click keeps the piece.
C16_PromotionToQueen ==
    [][\A square \in Squares :
        (/\ ClickAccepted
         /\ selectedSquare \notin {"", square}
         /\ handleSquareClick(square))
        => LET pawnToLastRank == /\ game.board[selectedSquare].type = "p"
                                 /\ square \in LastRanks
           IN  /\ promotion(game, selectedSquare, square)
                    = IF pawnToLastRank THEN "q" ELSE ""
               /\ Len(moveHistory') > Len(moveHistory)
                    => /\ moveHistory'[Len(moveHistory')].move.promotion
                            = IF pawnToLastRank THEN "q" ELSE ""
                       /\ game'.board[square].type
                            = IF pawnToLastRank THEN "q"
                              ELSE game.board[selectedSquare].type
               /\ (pawnToLastRank /\ LegalFromTo(selectedSquare, square))
                    => Len(moveHistory') > Len(moveHistory)]_vars

\* C16, its case: a black pawn moved to rank 1 by a human's click has become
\* a queen
C16_Witness ==
    /\ moveHistory # <<>>
    /\ moveHistory[Len(moveHistory)].player.provider = "human"
    /\ moveHistory[Len(moveHistory)].move
         = [color |-> "b", from |-> "h2", to |-> "h1", promotion |-> "q"]
    /\ game.board["h1"] = [color |-> "b", type |-> "q"]
    /\ game.history # <<>>

\* the skill level and the depth the README gives for a difficulty name
ClaimedLevels(d) ==
    CASE d = "beginner" -> <<"3", "3">>
      [] d = "advanced" -> <<"15", "12">>
      [] d = "master"   -> <<"20", "18">>
      [] OTHER          -> <<"10", "8">>

\* the commands of call c among those queued (q) and those posted (inbox)
CommandsOf(c, q, inbox) ==
    { <<q[i].cmd, q[i].arg>> : i \in { j \in DOMAIN q : q[j].req = c } }
    \cup { <<inbox[i].cmd, inbox[i].arg>> : i \in { j \in DOMAIN inbox : inbox[j].req = c } }

\* C17: a request without thinkingTime sends skill level and depth 3 and 3
\* for beginner, 10 and 8 for intermediate, 15 and 12 for advanced, 20 and
\* 18 for master, and 10 and 8 for any other difficulty name.
C17_DifficultyMapping ==
    [][\A c \in Calls, d \in DifficultyNames :
        (/\ calls[c].pc # "pending"
         /\ calls'[c].pc = "pending"
         /\ IF calls[c].pc = "new" THEN RequestStockfish(c, d)
            ELSE calls[c].difficulty = d)
        => CommandsOf(c, pendingCommands', engIn')
             = { <<"setoption", ClaimedLevels(d)[1]>>,
                 <<"position", position.fen>>,
                 <<"go", "depth " \o ClaimedLevels(d)[2]>> }]_vars

\* C18: startCustomGame starts a game (setGameMode and init) only if every
\* side whose provider is not 'human' has that provider reported available
\* by AIManager.isProviderAvailable; otherwise it shows an alert, starts no
\* game and leaves the state of GameController unchanged.
C18_StartOnlyWhenAvailable ==
    [][LET allAvailable == /\ setup.white # "human" => setup.whiteAvailable
                           /\ setup.black # "human" => available(setup)
       IN  /\ gameId' # gameId
                => /\ setup.pc = "black"
                   /\ allAvailable
                   /\ gameMode' = createGameMode(setup.white, setup.black)
                   /\ setup'.shown = "game"
           /\ (BlackChecked /\ ~allAvailable)
                => /\ setup'.shown = "alert"
                   /\ UNCHANGED <<game, selectedSquare, isAIThinking, isPaused, gameMode,
                                  moveHistory, isViewingHistory, currentViewIndex,
                                  gameId, aiTimers, requests>>
           /\ (BlackChecked /\ allAvailable) => gameId' = gameId + 1]_vars

\* C18, its case: a game of two AI sides was started after both providers
\* were reported available
C18_Witness ==
    /\ setup.shown = "game"
    /\ gameId = 1
    /\ gameMode = createGameMode("stockfish", "grok")
    /\ \E c \in Calls : calls[c].kind = "init" /\ calls[c].val = "true"

\* C19: AIManager.getBestMove with provider 'human' rejects with 'Cannot get
\* move for human player': it contacts no provider (no command to the
\* engine, no request to the API) and never resolves to a move, not even a
\* random one.
C19_HumanRejected ==
    \A c \in Calls :
        calls[c].kind = "human"
        => /\ calls[c].pc = "done"
           /\ calls[c].out = "rejected"
           /\ calls[c].val = "Cannot get move for human player"
           /\ calls[c].sent = <<>>
           /\ calls[c].sf = "none"
           /\ \A i \in DOMAIN engIn : engIn[i].req # c
           /\ \A i \in DOMAIN pendingCommands : pendingCommands[i].req # c

\* C19, its case: a call for a human player in a position with legal moves
\* has been rejected
C19_Witness ==
    \E c \in Calls :
        /\ calls[c].kind = "human"
        /\ calls[c].legal # <<>>
        /\ calls[c].out = "rejected"

\* C20: flip() toggles the flip state and rebuilds the 64 squares so that
\* the square at grid position (row, col) after the flip is the one that
\* was at (7-row, 7-col) before it; the layout is that of the flip state,
\* so two consecutive flips restore it (in either copy of ChessBoard); and
\* setOrientation(f) changes nothing when the board already has
\* orientation f.
C20_FlipRotates ==
    /\ [](gameId > 0
            => /\ squares = createBoard(isFlipped)
               /\ squares = createBoardCopy(isFlipped)
               /\ squares = createBoard(~(~isFlipped))
               /\ Cardinality({squares[p] : p \in Grid}) = 64)
    /\ [][/\ flip => /\ isFlipped' = ~isFlipped
                     /\ \A p \in Grid : squares'[p] = squares[<<7 - p[1], 7 - p[2]>>]
          /\ \A f \in BOOLEAN :
                (setOrientation(f) /\ isFlipped = f) => UNCHANGED <<isFlipped, squares>>]_vars

\* C20, its case: the board of a game between two human players has been
\* flipped: h1 is at the top left, a8 at the bottom right
C20_Witness ==
    /\ gameId > 0
    /\ ~isPlayerBlack(gameMode)
    /\ isFlipped
    /\ squares[<<0, 0>>] = "h1"
    /\ squares[<<7, 7>>] = "a8"

\* C21: after ChessBoard.render(game), in either orientation, the square
\* element named file+rank shows the piece game.board() reports at row
\* 8-rank, column file index, and is empty when there is none: whenever the
\* squares have been rendered since they were made, this holds of every
\* element, and the render() of both copies of ChessBoard gives this.
C21_RenderShowsPosition ==
    LET Reported(g, name) ==
            game_board(g)[<<8 - (DisplayOf[name][1] + 1), DisplayOf[name][2]>>]
    IN  (gameId > 0 /\ pieces # NoPieces)
            => /\ \A p \in Grid : pieces[p] = Reported(game, squares[p])
               /\ \A p \in Grid : renderCopy(game, squares)[p] = Reported(game, squares[p])

\* C22: at most one AI move request is outstanding at any time, and
\* isAIThinking is true exactly while a request issued by processAIMove has
\* not completed, also when a new game is started meanwhile.
C22_OneRequestOutstanding ==
    /\ Len(requests) <= 1
    /\ isAIThinking <=> (requests # <<>>)

\* C23: an AI answer is applied only to the position it was computed for:
\* whenever the answer to a request is played and recorded in moveHistory,
\* the game is the game the request was issued in and its position the
\* position the request was issued for.
C23_AnswerForItsPosition ==
    [][\A i \in DOMAIN requests :
          (AIMoveReturned(i) /\ moveHistory' # moveHistory)
              => /\ requests[i].game = gameId
                 /\ requests[i].fen = game_fen(game)]_vars

\* C24: moveHistory is the linear record of one game: entry 0 was played
\* from the initial position, the position of every entry is the result of
\* applying its move to the position of the entry before it, White's moves
\* are at the even indices and Black's at the odd ones, and moveNumber of
\* entry i is floor(i/2)+1 (entry i of the code is moveHistory[i + 1] here).
C24_HistoryIsOneGame ==
    \A i \in 0..(Len(moveHistory) - 1) :
        LET entry == moveHistory[i + 1]
            before == IF i = 0 THEN game_fen(Chess) ELSE moveHistory[i].fen
            r == game_move(game_load(before), entry.move.from, entry.move.to,
                           entry.move.promotion)
        IN  /\ r.ok
            /\ game_fen(r.game) = entry.fen
            /\ entry.move.color = (IF i % 2 = 0 THEN "w" ELSE "b")
            /\ entry.moveNumber = (i \div 2) + 1

\* C25: in every reachable state isViewingHistory is true if and only if
\* currentViewIndex is not -1, and while it is true
\* 0 <= currentViewIndex < moveHistory.length.
C25_ViewIndexInRange ==
    /\ isViewingHistory <=> (currentViewIndex # -1)
    /\ isViewingHistory => (0 <= currentViewIndex /\ currentViewIndex < Len(moveHistory))

\* C25, its case: in a second game, after moves were played, an earlier
\* entry of the history is being viewed
C25_Witness ==
    /\ gameId = 2
    /\ isViewingHistory
    /\ Len(moveHistory) >= 2
    /\ currentViewIndex = 0

\* C26: the TIMEOUT timer of a getBestMove request affects only that
\* request: when it fires after its own request has been resolved or
\* rejected, the callback registered by a later request stays registered
\* and that request stays as it is.
C26_TimerOfItsRequestOnly ==
    [][(RequestTimeout /\ calls[Head(reqTimers)].sf # "pending")
          => /\ currentCallback' = currentCallback
             /\ calls' = calls]_vars

\* C27: a getBestMove request is resolved only by the bestmove of its own
\* search: whenever the 'bestmove' line an engine prints for a 'go' command
\* resolves a request, that 'go' was sent for this very request.
C27_BestmoveOfOwnSearch ==
    [][\A i \in DOMAIN engIn : \A c \in Calls :
          (/\ EngineBestmove(i)
           /\ calls[c].sf = "pending"
           /\ calls'[c].sf = "resolved")
              => engIn[i].req = c]_vars

\* C28: the commands a getBestMove request issues before 'uciok' are queued
\* (none reaches the engine then); once 'uciok' is received the queue is
\* eventually sent out; and it is sent in the order of issue and before any
\* command issued later: no request sends its commands to the engine while
\* commands are still queued.
C28_QueuedCommandsSent ==
    /\ [][\A c \in Calls :
            LET OfCall(q) == SelectSeq(q, LAMBDA m : m.req = c) IN
            (calls[c].sf # "pending" /\ calls'[c].sf = "pending" /\ ~engineReady)
                => /\ pendingCommands' = pendingCommands \o OfCall(pendingCommands')
                   /\ Len(OfCall(pendingCommands')) = 3
                   /\ OfCall(engIn') = <<>>]_vars
    /\ [][\A c \in Calls :
            (calls[c].sf # "pending" /\ calls'[c].sf = "pending" /\ engineReady)
                => pendingCommands = <<>>]_vars
    /\ (engineReady /\ pendingCommands # <<>>) ~> (pendingCommands = <<>>)

\* C29: each StockfishEngine.getBestMove request issues, in this order,
\* 'setoption name Skill Level value <n>', 'position fen <fen>' and exactly
\* one 'go': 'go movetime <t>' when thinkingTime is given and not zero,
\* 'go depth <d>' otherwise; and its callback is registered when 'go' has
\* been issued.
C29_CommandOrder ==
    [][\A c \in Calls, d \in CallDifficulties, t \in ThinkingTimes :
        LET OfCall(q) == SelectSeq(q, LAMBDA m : m.req = c)
            issued == OfCall(engIn' \o pendingCommands')
        IN  (/\ calls[c].sf # "pending"
             /\ calls'[c].sf = "pending"
             /\ IF calls[c].pc = "new" THEN RequestStockfishTimed(c, d, t)
                ELSE calls[c].difficulty = d /\ calls[c].thinkingTime = t)
            => /\ Len(issued) = 3
               /\ issued[1].cmd = "setoption" /\ issued[1].arg = SkillLevel(d)
               /\ issued[2].cmd = "position" /\ issued[2].arg = position.fen
               /\ issued[3].cmd = "go"
               /\ issued[3].arg = (IF t = "1000" THEN "movetime 1000"
                                   ELSE "depth " \o getDepthForDifficulty(d))
               /\ currentCallback' = c]_vars

\* C29, its case: a request made with a thinkingTime of 1000 ms has issued
\* its commands to a ready engine, and one made with thinkingTime 0 too
C29_Witness ==
    /\ \E i \in DOMAIN engIn : engIn[i].cmd = "go" /\ engIn[i].arg = "movetime 1000"
    /\ \E i \in DOMAIN engIn : engIn[i].cmd = "go" /\ engIn[i].arg = "depth 3"
    /\ currentCallback # 0

\* C30: StockfishEngine.stop() returns the module to its initial state:
\* after it engine is null, isReady() is false, pendingCommands is empty
\* and no callback is registered, so that an engine created by a later
\* init() is sent nothing that was issued before the stop.
C30_StopResets ==
    [][(\E terminated \in BOOLEAN : stop(terminated))
          => /\ engine' = 0
             /\ ~isReady(engine', engineReady')
             /\ pendingCommands' = <<>>
             /\ currentCallback' = 0]_vars

\* C31: in GrokAI.getBestMove a delay of RETRY_DELAY * attempt follows
\* attempt number `attempt` exactly when that attempt threw an error and
\* attempt < MAX_RETRIES; after an attempt that returned an invalid move the
\* next attempt starts at once, and after the last attempt the call ends
\* (with the random fallback) without any delay.
C31_DelayAfterErrorOnly ==
    [][\A c \in Calls :
        (calls[c].pc = "fetch" /\ calls'[c] # calls[c])
        => LET attempt == calls[c].attempt
               after == calls'[c]
           IN  /\ (after.pc = "sleep")
                     <=> (after.last = "error" /\ attempt < MAX_RETRIES)
               /\ after.pc = "sleep"
                     => after.delay = RETRY_DELAY * attempt /\ after.attempt = attempt
               /\ after.pc # "sleep" => after.delay = 0
               /\ (after.last = "invalid" /\ attempt < MAX_RETRIES)
                     => after.pc = "fetch" /\ after.attempt = attempt + 1
               /\ (after.last # "valid" /\ attempt = MAX_RETRIES)
                     => after.pc = "done"]_vars

\* C31, its case: the second attempt threw and the call sleeps for
\* 2 * RETRY_DELAY before the third
C31_Witness ==
    \E c \in Calls :
        /\ calls[c].kind = "grok"
        /\ calls[c].pc = "sleep"
        /\ calls[c].attempt = 2
        /\ calls[c].last = "error"
        /\ calls[c].delay = 2 * RETRY_DELAY

====
